---- MODULE Spec2Model ----
(***************************************************************************)
(* restic-compose-backup: the Container model and running-group discovery  *)
(* (containers.py) and the backup orchestrator (cli.py).                   *)
(*                                                                         *)
(* A container is the record the runtime returns: its Id (a sequence of    *)
(* characters, here small numbers), the Labels dict of its Config (a       *)
(* function from the label names present to their values) and, where they  *)
(* are read, its Config dict and its Mounts.  A Python str is a string.    *)
(* Every process of the tool runs main(): it builds RunningContainers()    *)
(* from the runtime's snapshot and then dispatches on its command.         *)
(*                                                                         *)
(* Specifications:                                                         *)
(*   Spec           one invocation of a command in a compose deployment    *)
(*   SpecRace       two overlapping invocations                            *)
(*   SpecDiscovery  RunningContainers() over any snapshot                  *)
(*   SpecFilter     Container(data) and filter_mounts over any include and *)
(*                  exclude label and mount list                           *)
(*   SpecContainer  Container(data) over any raw record, then one lookup   *)
(*   SpecMounts     discovery, then generate_backup_mounts, over any group *)
(***************************************************************************)
EXTENDS Integers, Sequences, FiniteSets, TLC

VARIABLES
    runtime,      \* what utils.list_containers() returns, in enumeration order
    HOSTNAME,     \* os.environ['HOSTNAME'] of each process
    action,       \* args.action of each process
    pc,           \* each process's position in main / backup / start_backup_process
    containers,   \* main's local `containers` (the RunningContainers object)
    errors,       \* start_backup_process's local `errors`
    idx,          \* position of the database loop in containers_for_backup()
    result,       \* backup's local `result` (the spawned container's exit code)
    forget_result,\* cleanup's local `forget_result`
    exception,    \* the exception that ended a process ("" when none did)
    guard,        \* what the command's guard decided: "", "passed" or "refused"
    calls,        \* per process, how often each delegate was invoked
    db_calls,     \* per process, the peers backup() was invoked on, in order
    failed,       \* per process, the delegate calls that returned non-zero or raised
    spawn_args,   \* per process, the arguments backup_runner.run was called with
    data,         \* the raw record a Container is constructed from
    built,        \* the Container constructed from data, or what __init__ raised
    returned      \* the last call made on its own: its name, arguments and value

vars == <<runtime, HOSTNAME, action, pc, containers, errors, idx, result,
          forget_result, exception, guard, calls, db_calls, failed,
          spawn_args, data, built, returned>>

\* what the orchestrator's steps leave alone
unit == <<data, built, returned>>

----------------------------------------------------------------------------
(* Bounds *)

\* the longest snapshot discovery is applied to on its own
MaxContainers == 3
\* the most peers the backup service's deployment has
MaxPeers == 2

----------------------------------------------------------------------------
(* Container (containers.py) *)

LABEL_PROJECT == "com.docker.compose.project"
LABEL_ONEOFF == "com.docker.compose.oneoff"
LABEL_BACKUP_PROCESS == "restic-compose-backup.backup_process"
LABEL_VOLUMES == "restic-compose-backup.volumes"
LABEL_MYSQL == "restic-compose-backup.mysql"
LABEL_MARIADB == "restic-compose-backup.mariadb"
LABEL_POSTGRES == "restic-compose-backup.postgres"

\* Python's None, as a label value
NoValue == "None"

EmptyDict == [k \in {} |-> ""]

\* Python's None, where a Container is expected
None == [Id |-> <<>>, Labels |-> EmptyDict]

\* str.startswith
StartsWith(s, prefix) ==
    /\ Len(prefix) <= Len(s)
    /\ SubSeq(s, 1, Len(prefix)) = prefix

\* Container.get_label: the default is not passed on to dict.get
get_label(container, name, default) ==
    IF name \in DOMAIN container.Labels THEN container.Labels[name] ELSE NoValue

\* utils.is_true
is_true(value) == value \in {"1", "true", "True"}

project_name(container) == get_label(container, LABEL_PROJECT, "")

is_oneoff(container) == get_label(container, LABEL_ONEOFF, "False") = "True"

is_backup_process_container(container) ==
    get_label(container, LABEL_BACKUP_PROCESS, NoValue) = "True"

volume_backup_enabled(container) ==
    is_true(get_label(container, LABEL_VOLUMES, NoValue))

mysql_backup_enabled(container) ==
    is_true(get_label(container, LABEL_MYSQL, NoValue))

mariadb_backup_enabled(container) ==
    is_true(get_label(container, LABEL_MARIADB, NoValue))

postgresql_backup_enabled(container) ==
    is_true(get_label(container, LABEL_POSTGRES, NoValue))

database_backup_enabled(container) ==
    \/ mysql_backup_enabled(container)
    \/ mariadb_backup_enabled(container)
    \/ postgresql_backup_enabled(container)

backup_enabled(container) ==
    \/ volume_backup_enabled(container)
    \/ database_backup_enabled(container)

\* Container.__eq__: by id; a Container never equals None
ContainerEq(self, other) ==
    IF other = None THEN FALSE ELSE self.Id = other.Id

----------------------------------------------------------------------------
(* str: a Python str is a TLA+ string; Len, SubSeq and \o act on strings *)

\* `sub in s`: sub is a substring of s (the empty str is one of every str)
Contains(s, sub) ==
    \E i \in 1..(Len(s) + 1) :
        /\ i + Len(sub) - 1 <= Len(s)
        /\ SubSeq(s, i, i + Len(sub) - 1) = sub

\* The characters str.strip() removes, as far as the label values have them
Whitespace == {" "}

RECURSIVE lstrip(_)
lstrip(s) ==
    IF Len(s) > 0 /\ SubSeq(s, 1, 1) \in Whitespace
    THEN lstrip(SubSeq(s, 2, Len(s))) ELSE s

RECURSIVE rstrip(_)
rstrip(s) ==
    IF Len(s) > 0 /\ SubSeq(s, Len(s), Len(s)) \in Whitespace
    THEN rstrip(SubSeq(s, 1, Len(s) - 1)) ELSE s

\* str.strip()
strip(s) == rstrip(lstrip(s))

\* str.split(sep), sep one character: the pieces between the separators,
\* the empty ones too; always at least one piece
RECURSIVE split(_, _)
split(s, sep) ==
    LET at == {i \in 1..Len(s) : SubSeq(s, i, i) = sep}
    IN IF at = {} THEN <<s>>
       ELSE LET i == CHOOSE i \in at : \A j \in at : i <= j
            IN <<SubSeq(s, 1, i - 1)>> \o split(SubSeq(s, i + 1, Len(s)), sep)

----------------------------------------------------------------------------
(* Mount, and the mounts of a Container (containers.py) *)

LABEL_SERVICE == "com.docker.compose.service"
LABEL_INCLUDE == "restic-compose-backup.volumes.include"
LABEL_EXCLUDE == "restic-compose-backup.volumes.exclude"

\* Mount.source, Mount.destination
source(mount) == mount.Source
destination(mount) == mount.Destination

service_name(container) == get_label(container, LABEL_SERVICE, "")

\* Python's None where _parse_pattern returns no list.  `if self._include:`
\* is false of None and of [], and str.split never returns []
NoPatterns == <<>>

\* Container._parse_pattern; a label's value is None or a str
_parse_pattern(value) ==
    IF value = NoValue \/ value = "" THEN NoPatterns
    ELSE IF Len(strip(value)) = 0 THEN NoPatterns
    ELSE split(strip(value), ",")

\* self._include, self._exclude, as __init__ sets them
_include(container) ==
    _parse_pattern(get_label(container, LABEL_INCLUDE, NoValue))
_exclude(container) ==
    _parse_pattern(get_label(container, LABEL_EXCLUDE, NoValue))

\* the inner loop of filter_mounts: `pattern in mount.source` for some pattern
AnyPatternIn(patterns, mount) ==
    \E k \in 1..Len(patterns) : Contains(source(mount), patterns[k])

\* A filter that applies the exclude patterns after the include patterns
FilterMountsBoth(container) ==
    LET included ==
            IF _include(container) # NoPatterns
            THEN SelectSeq(container.Mounts,
                    LAMBDA mount : AnyPatternIn(_include(container), mount))
            ELSE container.Mounts
    IN IF _exclude(container) # NoPatterns
       THEN SelectSeq(included,
                      LAMBDA mount : ~AnyPatternIn(_exclude(container), mount))
       ELSE included

\* A filter whose exclude branch keeps what it should drop
FilterMountsExcludeInverted(container) ==
    IF _include(container) # NoPatterns
    THEN SelectSeq(container.Mounts,
                   LAMBDA mount : AnyPatternIn(_include(container), mount))
    ELSE IF _exclude(container) # NoPatterns
    THEN SelectSeq(container.Mounts,
                   LAMBDA mount : AnyPatternIn(_exclude(container), mount))
    ELSE container.Mounts

\* Container.filter_mounts
filter_mounts(container) ==
    IF _include(container) # NoPatterns
    THEN SelectSeq(container.Mounts,
                   LAMBDA mount : AnyPatternIn(_include(container), mount))
    ELSE IF _exclude(container) # NoPatterns
    THEN SelectSeq(container.Mounts,
                   LAMBDA mount : ~AnyPatternIn(_exclude(container), mount))
    ELSE container.Mounts

----------------------------------------------------------------------------
(* Volumes (containers.py) *)

\* How a call that can raise ends
Returns(value) == [raised |-> "", value |-> value]
Raises(error) == [raised |-> error, value |-> NoValue]

\* Container.get_config
get_config(container, name, default) ==
    IF name \in DOMAIN container.Config THEN container.Config[name]
    ELSE default

image(container) == get_config(container, "Image", NoValue)

environment(container) == get_config(container, "Env", <<>>)

\* Container.volumes: an entry per mount, a later mount replacing an earlier
\* one with the same source
RECURSIVE Volumes(_)
Volumes(mounts) ==
    IF mounts = <<>> THEN EmptyDict
    ELSE LET mount == mounts[Len(mounts)]
         IN (source(mount) :> [bind |-> destination(mount), mode |-> "rw"])
            @@ Volumes(SubSeq(mounts, 1, Len(mounts) - 1))

volumes(container) == Volumes(container.Mounts)

\* utils.strip_root: the path without one leading separator
strip_root(path) ==
    IF StartsWith(path, "/") THEN SubSeq(path, 2, Len(path)) ELSE path

\* pathlib: the root of a path; exactly two leading separators are kept
Root(path) ==
    IF StartsWith(path, "///") THEN "/"
    ELSE IF StartsWith(path, "//") THEN "//"
    ELSE IF StartsWith(path, "/") THEN "/"
    ELSE ""

\* pathlib: the parts of a path after its root; empty parts and "." go
Parts(path) ==
    SelectSeq(split(path, "/"), LAMBDA part : part # "" /\ part # ".")

RECURSIVE JoinParts(_)
JoinParts(parts) ==
    IF parts = <<>> THEN ""
    ELSE IF Len(parts) = 1 THEN parts[1]
    ELSE parts[1] \o "/" \o JoinParts(Tail(parts))

\* str(Path(path))
Path(path) ==
    IF Root(path) = "" /\ Parts(path) = <<>> THEN "."
    ELSE Root(path) \o JoinParts(Parts(path))

\* str(Path(a) / b): an absolute b replaces a
PathJoin(a, b) ==
    IF Root(b) # "" \/ Path(a) = "." THEN Path(b)
    ELSE Path(a \o "/" \o b)

\* the loop of volumes_for_backup: an entry per filtered mount, a later mount
\* replacing an earlier one with the same source
RECURSIVE BackupVolumes(_, _, _, _)
BackupVolumes(mounts, service, source_prefix, mode) ==
    IF mounts = <<>> THEN EmptyDict
    ELSE LET mount == mounts[Len(mounts)]
         IN (source(mount) :>
                [bind |-> PathJoin(PathJoin(Path(source_prefix), service),
                                   Path(strip_root(destination(mount)))),
                 mode |-> mode])
            @@ BackupVolumes(SubSeq(mounts, 1, Len(mounts) - 1),
                             service, source_prefix, mode)

\* Container.volumes_for_backup.  Path(...) / None raises TypeError: when a
\* mount is left and the container has no service label
volumes_for_backup(container, source_prefix, mode) ==
    IF filter_mounts(container) # <<>> /\ service_name(container) = NoValue
    THEN Raises("TypeError")
    ELSE Returns(BackupVolumes(filter_mounts(container),
                               service_name(container), source_prefix, mode))

----------------------------------------------------------------------------
(* Container.instance (containers.py) *)

\* An object of class class constructed from the container's record; the
\* class Container stands for the container itself
Instance(class, container) == [class |-> class, container |-> container]

\* Python's None, where an instance is expected: what the property returns
\* when it runs off the end of its first branch
NoInstance == Instance("NoneType", None)

\* A selection that tests the mysql label first
InstanceMysqlFirst(container) ==
    IF database_backup_enabled(container)
    THEN IF mysql_backup_enabled(container)
         THEN Instance("MysqlContainer", container)
         ELSE IF mariadb_backup_enabled(container)
         THEN Instance("MariadbContainer", container)
         ELSE IF postgresql_backup_enabled(container)
         THEN Instance("PostgresContainer", container)
         ELSE NoInstance
    ELSE Instance("Container", container)

\* Container.instance
instance(container) ==
    IF database_backup_enabled(container)
    THEN IF mariadb_backup_enabled(container)
         THEN Instance("MariadbContainer", container)
         ELSE IF mysql_backup_enabled(container)
         THEN Instance("MysqlContainer", container)
         ELSE IF postgresql_backup_enabled(container)
         THEN Instance("PostgresContainer", container)
         ELSE NoInstance
    ELSE Instance("Container", container)

----------------------------------------------------------------------------
(* Container.__init__ (containers.py) *)

\* dict.get(key) is None: the key is absent
Missing(dict, key) == key \notin DOMAIN dict

\* No raw record
NoData == EmptyDict

\* Before Container(data) ran
NotBuilt == [state |-> "new", raised |-> "", container |-> None]

\* __init__ raised
Raised(error) == [state |-> "raised", raised |-> error, container |-> None]

\* Container(data).  The mounts are built before anything is checked, and
\* iterating data.get('Mounts') raises TypeError when it is None; `not
\* self._state` holds of None and of an empty dict
Container(record) ==
    IF Missing(record, "Mounts") THEN Raised("TypeError")
    ELSE IF Missing(record, "State") \/ record.State = EmptyDict
    THEN Raised("ValueError")
    ELSE IF Missing(record, "Config") THEN Raised("ValueError")
    ELSE IF Missing(record.Config, "Labels") THEN Raised("ValueError")
    ELSE [state |-> "built", raised |-> "",
          container |-> [Id |-> record.Id,
                         Labels |-> record.Config.Labels,
                         Config |-> record.Config,
                         Mounts |-> record.Mounts]]

\* No call was made yet
NoReturn == [call |-> ""]

\* backup_runner.run was not called
NoArgs == [called |-> FALSE]

----------------------------------------------------------------------------
(* RunningContainers (containers.py) *)

\* first loop of __init__: every record whose Id starts with HOSTNAME is
\* assigned to this_container in turn
RECURSIVE FindThisContainer(_, _, _)
FindThisContainer(all_containers, hostname, this) ==
    IF all_containers = <<>> THEN this
    ELSE FindThisContainer(Tail(all_containers), hostname,
            IF StartsWith(Head(all_containers).Id, hostname)
            THEN Head(all_containers) ELSE this)

\* The test without its one-off condition
InComposeSetupWithOneoff(container, this) ==
    /\ project_name(container) = project_name(this)
    /\ container.Id # this.Id

\* the test that appends a container to self.containers
InComposeSetup(container, this) ==
    /\ project_name(container) = project_name(this)
    /\ ~is_oneoff(container)
    /\ container.Id # this.Id

\* second loop of __init__: every record carrying the marker label is assigned
\* to backup_process_container in turn
RECURSIVE FindBackupProcessContainer(_, _)
FindBackupProcessContainer(all_containers, found) ==
    IF all_containers = <<>> THEN found
    ELSE FindBackupProcessContainer(Tail(all_containers),
            IF is_backup_process_container(Head(all_containers))
            THEN Head(all_containers) ELSE found)

\* second loop of __init__: the containers of the current compose setup
RECURSIVE GatherContainers(_, _)
GatherContainers(all_containers, this) ==
    IF all_containers = <<>> THEN <<>>
    ELSE LET rest == GatherContainers(Tail(all_containers), this)
         IN IF InComposeSetup(Head(all_containers), this)
            THEN <<Head(all_containers)>> \o rest ELSE rest

\* The object before __init__ ran (and what is left when it raised)
NoRunningContainers ==
    [raised |-> FALSE, this_container |-> None,
     backup_process_container |-> None, containers |-> <<>>]

\* RunningContainers.__init__; raised: ValueError("Cannot find metadata ...")
RunningContainers(all_containers, hostname) ==
    LET this == FindThisContainer(all_containers, hostname, None)
    IN IF this = None
       THEN [NoRunningContainers EXCEPT !.raised = TRUE]
       ELSE [raised |-> FALSE,
             this_container |-> this,
             backup_process_container |->
                 FindBackupProcessContainer(all_containers, None),
             containers |-> GatherContainers(all_containers, this)]

\* A lookup among the containers of the current compose setup only
BackupProcessRunningInComposeSetup(rc) ==
    \E i \in DOMAIN rc.containers :
        is_backup_process_container(rc.containers[i])

backup_process_running(rc) == rc.backup_process_container # None

\* RunningContainers.containers_for_backup
containers_for_backup(rc) == SelectSeq(rc.containers, backup_enabled)

\* the loop of generate_backup_mounts: mounts.update(...) for every
\* container with volume backup enabled
RECURSIVE UpdateMounts(_, _, _)
UpdateMounts(peers, dest_prefix, mounts) ==
    IF peers = <<>> THEN Returns(mounts)
    ELSE IF volume_backup_enabled(Head(peers))
    THEN LET update == volumes_for_backup(Head(peers), dest_prefix, "ro")
         IN IF update.raised # "" THEN update
            ELSE UpdateMounts(Tail(peers), dest_prefix,
                              update.value @@ mounts)
    ELSE UpdateMounts(Tail(peers), dest_prefix, mounts)

\* RunningContainers.generate_backup_mounts
generate_backup_mounts(rc, dest_prefix) ==
    UpdateMounts(containers_for_backup(rc), dest_prefix, EmptyDict)

----------------------------------------------------------------------------
(* Processes *)

\* The invocations of the tool an operator (or a scheduler) starts in the
\* backup service's container: one, or two that overlap.  Each `backup` among
\* them spawns one backup-process container, whose process is SpawnedOf(p).
Invocations == {1, 2}
SpawnedOf(p) == Cardinality(Invocations) + p
Spawned == {SpawnedOf(p) : p \in Invocations}
Procs == Invocations \cup Spawned

DelegateNames == {"init_repo", "spawn", "backup_files", "forget", "prune", "alert"}

\* How main() can end: it returned, exit(1) was called, an exception left it
Terminal == {"done", "exit1", "raised"}

\* The exit code of a process that ended
ExitCode(p) == IF pc[p] = "done" THEN 0 ELSE 1

SelfId == <<1, 1>>
PeerId(k) == <<2, k>>
SpawnedId(q) == <<3, q>>

\* The backup service's container: it mounts the runtime's socket and a
\* directory that the web service mounts too
SelfContainer ==
    [Id |-> SelfId,
     Labels |-> (LABEL_PROJECT :> "a") @@ (LABEL_SERVICE :> "backup"),
     Config |-> ("Image" :> "restic-compose-backup")
                @@ ("Env" :> <<"RESTIC_REPOSITORY=/repo">>),
     Mounts |-> <<[Type |-> "bind", Source |-> "/var/run/docker.sock",
                   Destination |-> "/tmp/docker.sock"],
                  [Type |-> "bind", Source |-> "/srv/media",
                   Destination |-> "/media"]>>]

\* "files" is a web service whose include label keeps its data volume only
PeerKinds == {"web", "files", "db"}

PeerContainer(kind, k) ==
    IF kind = "web"
    THEN [Id |-> PeerId(k),
          Labels |-> (LABEL_PROJECT :> "a") @@ (LABEL_VOLUMES :> "True")
                     @@ (LABEL_SERVICE :> "web"),
          Config |-> ("Image" :> "nginx"),
          Mounts |-> <<[Type |-> "bind", Source |-> "/srv/media",
                        Destination |-> "/srv/media"],
                       [Type |-> "volume", Name |-> "web_data",
                        Source |-> "/docker/volumes/web_data/_data",
                        Destination |-> "/data"]>>]
    ELSE IF kind = "files"
    THEN [Id |-> PeerId(k),
          Labels |-> (LABEL_PROJECT :> "a") @@ (LABEL_VOLUMES :> "True")
                     @@ (LABEL_SERVICE :> "files")
                     @@ (LABEL_INCLUDE :> "web_data"),
          Config |-> ("Image" :> "nginx"),
          Mounts |-> <<[Type |-> "bind", Source |-> "/srv/media",
                        Destination |-> "/srv/media"],
                       [Type |-> "volume", Name |-> "web_data",
                        Source |-> "/docker/volumes/web_data/_data",
                        Destination |-> "/data"]>>]
    ELSE [Id |-> PeerId(k),
          Labels |-> (LABEL_PROJECT :> "a") @@ (LABEL_MYSQL :> "True")
                     @@ (LABEL_SERVICE :> "db"),
          Config |-> ("Image" :> "mysql"),
          Mounts |-> <<[Type |-> "volume", Name |-> "db_data",
                        Source |-> "/docker/volumes/db_data/_data",
                        Destination |-> "/var/lib/mysql"]>>]

\* utils.list_containers: the containers that run; a spawned container is
\* listed from its start until its process ends
list_containers ==
    SelectSeq(runtime,
              LAMBDA c : \A q \in Spawned :
                            c.Id = SpawnedId(q) => pc[q] \notin Terminal)

NoCalls == [d \in DelegateNames |-> 0]

\* What a delegate call can return; it can also raise
ExitCodes == {0, 1}

\* How a call inside try/except can end: with an exit code, or raising
Outcomes ==
    {[raised |-> FALSE, code |-> r] : r \in ExitCodes}
    \cup {[raised |-> TRUE, code |-> 0]}

TargetFailed(o) == o.raised \/ o.code # 0

Called(p, name) == [calls EXCEPT ![p][name] = @ + 1]
Failed(p, name) == [failed EXCEPT ![p] = @ \cup {name}]

----------------------------------------------------------------------------
(* main (cli.py) *)

\* main, up to the dispatch on args.action: containers = RunningContainers()
Discover(p) ==
    /\ pc[p] = "main"
    /\ LET rc == RunningContainers(list_containers, HOSTNAME[p])
       IN /\ containers' = [containers EXCEPT ![p] = rc]
          /\ IF rc.raised
             THEN /\ pc' = [pc EXCEPT ![p] = "raised"]
                  /\ exception' = [exception EXCEPT ![p] = "SelfNotFound"]
             ELSE /\ pc' = [pc EXCEPT ![p] = action[p]]
                  /\ UNCHANGED exception
    /\ UNCHANGED <<unit, spawn_args, runtime, HOSTNAME, action, errors, idx, result,
                   forget_result, guard, calls, db_calls, failed>>

----------------------------------------------------------------------------
(* backup (cli.py) *)

\* A guard that only asks whether this container is the backup process
AlreadyRunningSelfOnly(rc) ==
    ContainerEq(rc.this_container, rc.backup_process_container)

\* A guard with its test inverted
AlreadyRunningInverted(rc) == ~backup_process_running(rc)

\* the single-flight guard
AlreadyRunning(rc) == backup_process_running(rc)

\* "Make sure we don't spawn multiple backup processes"
BackupGuard(p) ==
    /\ pc[p] = "backup"
    /\ IF AlreadyRunning(containers[p])
       THEN /\ pc' = [pc EXCEPT ![p] = "raised"]
            /\ exception' = [exception EXCEPT ![p] = "AlreadyRunning"]
            /\ guard' = [guard EXCEPT ![p] = "refused"]
       ELSE /\ pc' = [pc EXCEPT ![p] = "init_repo"]
            /\ guard' = [guard EXCEPT ![p] = "passed"]
            /\ UNCHANGED exception
    /\ UNCHANGED <<unit, spawn_args, runtime, HOSTNAME, action, containers, errors, idx, result,
                   forget_result, calls, db_calls, failed>>

\* restic.init_repo(config.repository): its result is dropped, and nothing
\* catches what it raises
InitRepo(p) ==
    /\ pc[p] = "init_repo"
    /\ calls' = Called(p, "init_repo")
    /\ \/ /\ pc' = [pc EXCEPT ![p] = "spawn"]
          /\ \E r \in ExitCodes :
                failed' = IF r # 0 THEN Failed(p, "init_repo") ELSE failed
          /\ UNCHANGED exception
       \/ /\ pc' = [pc EXCEPT ![p] = "raised"]
          /\ exception' = [exception EXCEPT ![p] = "DelegateError"]
          /\ failed' = Failed(p, "init_repo")
    /\ UNCHANGED <<unit, spawn_args, runtime, HOSTNAME, action, containers, errors, idx, result,
                   forget_result, guard, db_calls>>

\* Arguments in which this container's own entry is kept for a source that
\* a peer mounts too
SpawnArgsOwnEntryKept(rc, mounts) ==
    [called |-> TRUE,
     image |-> image(rc.this_container),
     command |-> "restic-compose-backup start-backup-process",
     volumes |-> volumes(rc.this_container) @@ mounts,
     environment |-> environment(rc.this_container),
     source_container_id |-> rc.this_container.Id,
     labels |-> (LABEL_BACKUP_PROCESS :> "True")
                @@ (LABEL_PROJECT :> project_name(rc.this_container))]

\* The arguments of backup_runner.run; volumes: this container's volumes
\* after volumes.update(mounts)
SpawnArgs(rc, mounts) ==
    [called |-> TRUE,
     image |-> image(rc.this_container),
     command |-> "restic-compose-backup start-backup-process",
     volumes |-> mounts @@ volumes(rc.this_container),
     environment |-> environment(rc.this_container),
     source_container_id |-> rc.this_container.Id,
     labels |-> (LABEL_BACKUP_PROCESS :> "True")
                @@ (LABEL_PROJECT :> project_name(rc.this_container))]

\* The container backup_runner.run starts for process q
SpawnedContainer(p, q) ==
    [Id |-> SpawnedId(q),
     Labels |-> (LABEL_BACKUP_PROCESS :> "True")
                @@ (LABEL_PROJECT :> project_name(containers[p].this_container))]

\* The volumes are put together, which generate_backup_mounts can end by
\* raising; else backup_runner.run(...) starts the backup-process container
SpawnStart(p) ==
    /\ pc[p] = "spawn"
    /\ LET q == SpawnedOf(p)
           mounts == generate_backup_mounts(containers[p], "/volumes")
       IN IF mounts.raised # ""
          THEN /\ pc' = [pc EXCEPT ![p] = "raised"]
               /\ exception' = [exception EXCEPT ![p] = mounts.raised]
               /\ UNCHANGED <<runtime, HOSTNAME, action, calls, spawn_args>>
          ELSE /\ runtime' = Append(runtime, SpawnedContainer(p, q))
               /\ HOSTNAME' = [HOSTNAME EXCEPT ![q] = SpawnedId(q)]
               /\ action' = [action EXCEPT ![q] = "start_backup_process"]
               /\ pc' = [pc EXCEPT ![p] = "waiting", ![q] = "main"]
               /\ calls' = Called(p, "spawn")
               /\ spawn_args' = [spawn_args EXCEPT
                                   ![p] = SpawnArgs(containers[p], mounts.value)]
               /\ UNCHANGED exception
    /\ UNCHANGED <<unit, containers, errors, idx, result, forget_result,
                   guard, db_calls, failed>>

\* backup_runner.run(...) raises: the except branch alerts and returns
SpawnRaises(p) ==
    /\ pc[p] = "spawn"
    /\ LET mounts == generate_backup_mounts(containers[p], "/volumes")
       IN /\ mounts.raised = ""
          /\ spawn_args' = [spawn_args EXCEPT
                              ![p] = SpawnArgs(containers[p], mounts.value)]
    /\ calls' = [calls EXCEPT ![p]["spawn"] = @ + 1, ![p]["alert"] = @ + 1]
    /\ failed' = Failed(p, "spawn")
    /\ pc' = [pc EXCEPT ![p] = "done"]
    /\ UNCHANGED <<unit, runtime, HOSTNAME, action, containers, errors, idx, result,
                   forget_result, exception, guard, db_calls>>

\* backup_runner.run(...) returns the container's exit code; a non-zero one
\* is alerted with the contents of backup.log, if that file can be read
SpawnReturns(p) ==
    /\ pc[p] = "waiting"
    /\ pc[SpawnedOf(p)] \in Terminal
    /\ LET code == ExitCode(SpawnedOf(p))
       IN /\ result' = [result EXCEPT ![p] = code]
          /\ IF code # 0
             THEN /\ failed' = Failed(p, "spawn")
                  /\ \/ /\ calls' = Called(p, "alert")
                        /\ pc' = [pc EXCEPT ![p] = "done"]
                        /\ UNCHANGED exception
                     \/ /\ pc' = [pc EXCEPT ![p] = "raised"]
                        /\ exception' = [exception EXCEPT ![p] = "OSError"]
                        /\ UNCHANGED calls
             ELSE /\ pc' = [pc EXCEPT ![p] = "done"]
                  /\ UNCHANGED <<calls, failed, exception>>
    /\ UNCHANGED <<unit, spawn_args, runtime, HOSTNAME, action, containers, errors, idx,
                   forget_result, guard, db_calls>>

----------------------------------------------------------------------------
(* start_backup_process (cli.py) *)

\* `x is False`: a Container (or None) is never the object False
IsFalse(x) == FALSE

\* The condition under which start_backup_process refuses to run.  Python
\* chains the comparison: a == b is False means (a == b) and (b is False).
\* `not c` of a Container is False, of None is True.
CannotRunHere(rc) ==
    \/ rc.backup_process_container = None
    \/ /\ ContainerEq(rc.this_container, rc.backup_process_container)
       /\ IsFalse(rc.backup_process_container)

\* The guard.  status() after it only logs: the exit code of a peer's ping()
\* is reported, not acted on
StartGuard(p) ==
    /\ pc[p] = "start_backup_process"
    /\ IF CannotRunHere(containers[p])
       THEN /\ pc' = [pc EXCEPT ![p] = "done"]
            /\ guard' = [guard EXCEPT ![p] = "refused"]
            /\ UNCHANGED errors
       ELSE /\ pc' = [pc EXCEPT ![p] = "backup_files"]
            /\ guard' = [guard EXCEPT ![p] = "passed"]
            /\ errors' = [errors EXCEPT ![p] = FALSE]
    /\ UNCHANGED <<unit, spawn_args, runtime, HOSTNAME, action, containers, idx, result,
                   forget_result, exception, calls, db_calls, failed>>

\* `errors` assigned from the last target alone
ErrorsAfterOverwrite(err, o) == o.raised \/ o.code # 0

\* An except branch that does not set `errors`
ErrorsAfterExitCodeOnly(err, o) == IF o.code # 0 THEN TRUE ELSE err

\* `errors` after a target's try/except: set by the except branch, and by a
\* non-zero exit code; never reset
ErrorsAfter(err, o) == IF o.raised \/ o.code # 0 THEN TRUE ELSE err

\* "Back up volumes": restic.backup_files inside try/except
BackupFiles(p) ==
    /\ pc[p] = "backup_files"
    /\ calls' = Called(p, "backup_files")
    /\ \E o \in Outcomes :
          /\ errors' = [errors EXCEPT ![p] = ErrorsAfter(@, o)]
          /\ failed' = IF TargetFailed(o) THEN Failed(p, "backup_files")
                       ELSE failed
    /\ idx' = [idx EXCEPT ![p] = 1]
    /\ pc' = [pc EXCEPT ![p] = "databases"]
    /\ UNCHANGED <<unit, spawn_args, runtime, HOSTNAME, action, containers, result,
                   forget_result, exception, guard, db_calls>>

\* "back up databases": one iteration of the loop over
\* containers_for_backup(); instance.backup() inside try/except
BackupDatabase(p) ==
    /\ pc[p] = "databases"
    /\ idx[p] <= Len(containers_for_backup(containers[p]))
    /\ LET container == containers_for_backup(containers[p])[idx[p]]
       IN IF database_backup_enabled(container)
          THEN /\ db_calls' = [db_calls EXCEPT ![p] = Append(@, container.Id)]
               /\ \E o \in Outcomes :
                     /\ errors' = [errors EXCEPT ![p] = ErrorsAfter(@, o)]
                     /\ failed' = IF TargetFailed(o)
                                  THEN Failed(p, "backup_database")
                                  ELSE failed
          ELSE UNCHANGED <<db_calls, errors, failed>>
    /\ idx' = [idx EXCEPT ![p] = @ + 1]
    /\ UNCHANGED <<unit, spawn_args, runtime, HOSTNAME, action, pc, containers, result,
                   forget_result, exception, guard, calls>>

\* After the loop: exit(1) on errors; else cleanup(config, container), whose
\* argument is the loop variable, unbound when the loop had no iteration
AfterTargets(p) ==
    /\ pc[p] = "databases"
    /\ idx[p] > Len(containers_for_backup(containers[p]))
    /\ IF errors[p]
       THEN /\ pc' = [pc EXCEPT ![p] = "exit1"]
            /\ UNCHANGED exception
       ELSE IF Len(containers_for_backup(containers[p])) = 0
       THEN /\ pc' = [pc EXCEPT ![p] = "raised"]
            /\ exception' = [exception EXCEPT ![p] = "UnboundLocalError"]
       ELSE /\ pc' = [pc EXCEPT ![p] = "forget"]
            /\ UNCHANGED exception
    /\ UNCHANGED <<unit, spawn_args, runtime, HOSTNAME, action, containers, errors, idx, result,
                   forget_result, guard, calls, db_calls, failed>>

\* cleanup: restic.forget(...); nothing catches what it raises
Forget(p) ==
    /\ pc[p] = "forget"
    /\ calls' = Called(p, "forget")
    /\ \/ \E r \in ExitCodes :
             /\ forget_result' = [forget_result EXCEPT ![p] = r]
             /\ failed' = IF r # 0 THEN Failed(p, "forget") ELSE failed
             /\ pc' = [pc EXCEPT ![p] = "prune"]
             /\ UNCHANGED exception
       \/ /\ pc' = [pc EXCEPT ![p] = "raised"]
          /\ exception' = [exception EXCEPT ![p] = "DelegateError"]
          /\ failed' = Failed(p, "forget")
          /\ UNCHANGED forget_result
    /\ UNCHANGED <<unit, spawn_args, runtime, HOSTNAME, action, containers, errors, idx, result,
                   guard, db_calls>>

\* cleanup's return value, a bool
cleanup_result(forget, prune) == forget = 0 /\ prune = 0

\* `result != 0` for the bool cleanup returned: True == 1, False == 0
NotEqualZero(b) == (IF b THEN 1 ELSE 0) # 0

\* cleanup: restic.prune(...), the return, and the caller's exit(1)
Prune(p) ==
    /\ pc[p] = "prune"
    /\ calls' = Called(p, "prune")
    /\ \/ \E r \in ExitCodes :
             /\ failed' = IF r # 0 THEN Failed(p, "prune") ELSE failed
             /\ pc' = [pc EXCEPT ![p] =
                         IF NotEqualZero(cleanup_result(forget_result[p], r))
                         THEN "exit1" ELSE "done"]
             /\ UNCHANGED exception
       \/ /\ pc' = [pc EXCEPT ![p] = "raised"]
          /\ exception' = [exception EXCEPT ![p] = "DelegateError"]
          /\ failed' = Failed(p, "prune")
    /\ UNCHANGED <<unit, spawn_args, runtime, HOSTNAME, action, containers, errors, idx, result,
                   forget_result, guard, db_calls>>

----------------------------------------------------------------------------
(* The deployment: the backup service's container and its peers *)

PeerLists ==
    UNION {[1..n -> PeerKinds] : n \in 0..MaxPeers}

\* A backup process of another deployment on the same host
ForeignId == <<4, 1>>
ForeignBackupProcess ==
    [Id |-> ForeignId,
     Labels |-> (LABEL_BACKUP_PROCESS :> "True") @@ (LABEL_PROJECT :> "b")]

\* A backup process started as a one-off container of this deployment
OneoffId == <<5, 1>>
OneoffBackupProcess ==
    [Id |-> OneoffId,
     Labels |-> (LABEL_BACKUP_PROCESS :> "True") @@ (LABEL_PROJECT :> "a")
                @@ (LABEL_ONEOFF :> "True")]

\* What else runs on the host
ForeignKinds == {"none", "project", "oneoff"}

InitialRuntime(kinds, foreign) ==
    <<SelfContainer>>
    \o [k \in 1..Len(kinds) |-> PeerContainer(kinds[k], k)]
    \o (IF foreign = "project" THEN <<ForeignBackupProcess>>
        ELSE IF foreign = "oneoff" THEN <<OneoffBackupProcess>>
        ELSE <<>>)

Commands == {"backup", "start_backup_process"}

\* The state when the invocations start: a[p] is the command of invocation p,
\* "" when it is not started
Processes(all_containers, hostname, a) ==
    /\ runtime = all_containers
    /\ HOSTNAME = [p \in Procs |-> IF p \in Invocations THEN hostname ELSE <<>>]
    /\ action = [p \in Procs |-> IF p \in Invocations THEN a[p] ELSE ""]
    /\ pc = [p \in Procs |->
               IF p \in Invocations /\ a[p] # "" THEN "main" ELSE "idle"]
    /\ containers = [p \in Procs |-> NoRunningContainers]
    /\ errors = [p \in Procs |-> FALSE]
    /\ idx = [p \in Procs |-> 0]
    /\ result = [p \in Procs |-> 0]
    /\ forget_result = [p \in Procs |-> 0]
    /\ exception = [p \in Procs |-> ""]
    /\ guard = [p \in Procs |-> ""]
    /\ calls = [p \in Procs |-> NoCalls]
    /\ db_calls = [p \in Procs |-> <<>>]
    /\ failed = [p \in Procs |-> {}]
    /\ spawn_args = [p \in Procs |-> NoArgs]

\* The orchestrator's runs construct no Container on its own
Setup(all_containers, hostname, a) ==
    /\ Processes(all_containers, hostname, a)
    /\ data = NoData
    /\ built = NotBuilt
    /\ returned = NoReturn

\* One invocation, of either command, in a deployment of up to MaxPeers peers,
\* with or without a backup process outside the deployment on the host
Init ==
    \E kinds \in PeerLists, foreign \in ForeignKinds,
       p \in Invocations, command \in Commands :
        Setup(InitialRuntime(kinds, foreign), SelfId,
              [q \in Invocations |-> IF q = p THEN command ELSE ""])

\* Two overlapping invocations
InitRace ==
    \E a \in [Invocations -> Commands] :
        Setup(InitialRuntime(<<"web", "db">>, "none"), SelfId, a)

Next ==
    \E p \in Procs :
        \/ Discover(p)
        \/ BackupGuard(p)
        \/ InitRepo(p)
        \/ SpawnStart(p)
        \/ SpawnRaises(p)
        \/ SpawnReturns(p)
        \/ StartGuard(p)
        \/ BackupFiles(p)
        \/ BackupDatabase(p)
        \/ AfterTargets(p)
        \/ Forget(p)
        \/ Prune(p)

Spec == Init /\ [][Next]_vars

SpecRace == InitRace /\ [][Next]_vars

----------------------------------------------------------------------------
(* Discovery on its own: RunningContainers() over any snapshot *)

\* The ids of a snapshot are taken in this order: the order of a snapshot
\* does not depend on the ids' values, and every arrangement of labels over
\* the positions is kept
IdList == << <<1, 1>>, <<1, 2>>, <<2, 1>>, <<2, 2>> >>

Hostnames == {<<1>>, <<1, 2>>, <<2>>, <<2, 2>>, <<3>>}

LabelDicts ==
    {project @@ oneoff @@ marker :
        project \in {EmptyDict, LABEL_PROJECT :> "a", LABEL_PROJECT :> "b"},
        oneoff \in {EmptyDict, LABEL_ONEOFF :> "True"},
        marker \in {EmptyDict, LABEL_BACKUP_PROCESS :> "True"}}

IdChoices(n) ==
    {f \in [1..n -> 1..Len(IdList)] : \A i, j \in 1..n : i < j => f[i] < f[j]}

\* The snapshot of n containers with the ids f chooses and the labels l
Snapshot(n, f, l) == [k \in 1..n |-> [Id |-> IdList[f[k]], Labels |-> l[k]]]

\* The process whose discovery is looked at: the first invocation
Discoverer == CHOOSE p \in Invocations : \A q \in Invocations : p <= q

InitDiscovery ==
    \E n \in 0..MaxContainers, h \in Hostnames :
        \E f \in IdChoices(n), l \in [1..n -> LabelDicts] :
            Setup(Snapshot(n, f, l), h,
                  [q \in Invocations |-> IF q = Discoverer THEN "backup" ELSE ""])

NextDiscovery == \E p \in Invocations : Discover(p)

SpecDiscovery == InitDiscovery /\ [][NextDiscovery]_vars

----------------------------------------------------------------------------
(* A Container on its own: construction from a raw record, then one call *)

\* the longest value of an include or exclude label
MaxLen == 3
\* the most mounts of a container
MaxMounts == 2

\* The str of length n or less over chars
RECURSIVE Strings(_, _)
Strings(chars, n) ==
    IF n = 0 THEN {""}
    ELSE LET shorter == Strings(chars, n - 1)
         IN shorter \cup {s \o c : s \in shorter, c \in chars}

\* What the values of the include and exclude labels are made of
PatternChars == {"a", "b", ",", " "}

\* The values of the label that is varied; NoValue: the label is absent
LabelValues == {NoValue} \cup Strings(PatternChars, MaxLen)

\* The values of the other label
OtherLabelValues == {NoValue, "", "b", ","}

\* The mounts: two binds whose sources differ in case only, and a volume
\* whose source has the first bind's source as a substring
MountChoices ==
    {[Type |-> "bind", Source |-> "/a", Destination |-> "/x"],
     [Type |-> "bind", Source |-> "/A", Destination |-> "/y"],
     [Type |-> "volume", Name |-> "ab", Source |-> "/ab",
      Destination |-> "/x/y"]}

MountLists(n) == UNION {[1..k -> MountChoices] : k \in 0..n}

\* A dict with the label, or without it
OptionalLabel(name, value) ==
    IF value = NoValue THEN EmptyDict ELSE (name :> value)

Running == ("Running" :> TRUE)

\* The raw record of a running container
Record(id, labels, mounts) ==
    ("Id" :> id) @@ ("State" :> Running)
    @@ ("Config" :> ("Labels" :> labels)) @@ ("Mounts" :> mounts)

\* Nothing runs main()
NoInvocation == [q \in Invocations |-> ""]

orchestrator ==
    <<runtime, HOSTNAME, action, pc, containers, errors, idx, result,
      forget_result, exception, guard, calls, db_calls, failed, spawn_args>>

\* container = Container(data)
Construct ==
    /\ built = NotBuilt
    /\ data # NoData
    /\ built' = Container(data)
    /\ UNCHANGED <<orchestrator, data, returned>>

\* container.filter_mounts()
FilterMounts ==
    /\ built.state = "built"
    /\ returned = NoReturn
    /\ returned' = [call |-> "filter_mounts",
                    value |-> filter_mounts(built.container)]
    /\ UNCHANGED <<orchestrator, data, built>>

\* A container with mounts and include and exclude labels: one of the two
\* labels takes every value, the other a few
InitFilter ==
    \E mounts \in MountLists(MaxMounts),
       value \in LabelValues, other \in OtherLabelValues, swap \in BOOLEAN :
        /\ Processes(<<>>, <<>>, NoInvocation)
        /\ data = Record(SelfId,
                    IF swap
                    THEN OptionalLabel(LABEL_INCLUDE, other)
                         @@ OptionalLabel(LABEL_EXCLUDE, value)
                    ELSE OptionalLabel(LABEL_INCLUDE, value)
                         @@ OptionalLabel(LABEL_EXCLUDE, other),
                    mounts)
        /\ built = NotBuilt
        /\ returned = NoReturn

NextFilter == Construct \/ FilterMounts

SpecFilter == InitFilter /\ [][NextFilter]_vars

----------------------------------------------------------------------------
(* Any raw record: blocks present or not, labels and config keys present or
   not *)

\* The values of a label that enables a backup
FlagValues == {NoValue, "True", "False"}

\* The label dicts: the three database labels, the service and the project
LabelChoices ==
    {OptionalLabel(LABEL_MARIADB, mariadb) @@ OptionalLabel(LABEL_MYSQL, mysql)
        @@ OptionalLabel(LABEL_POSTGRES, postgres)
        @@ OptionalLabel(LABEL_SERVICE, service)
        @@ OptionalLabel(LABEL_PROJECT, project) :
        mariadb \in FlagValues, mysql \in FlagValues,
        postgres \in FlagValues,
        service \in {NoValue, "web"}, project \in {NoValue, "a"}}

\* A dict with the key, or without it
Optional(present, key, value) ==
    IF present THEN (key :> value) ELSE EmptyDict

\* The Config blocks: with or without Labels, Image and Env
ConfigChoices(labels) ==
    {Optional(has_labels, "Labels", labels)
        @@ Optional(has_image, "Image", "nginx")
        @@ Optional(has_env, "Env", <<"A=1">>) :
        has_labels \in BOOLEAN, has_image \in BOOLEAN, has_env \in BOOLEAN}

\* The State blocks: a running container's, and an empty one
StateChoices == {Running, EmptyDict}

InitContainer ==
    \E labels \in LabelChoices,
       has_state \in BOOLEAN, has_config \in BOOLEAN, has_mounts \in BOOLEAN :
        \E state \in StateChoices, config \in ConfigChoices(labels),
           mounts \in MountLists(1) :
            /\ Processes(<<>>, <<>>, NoInvocation)
            /\ data = ("Id" :> SelfId)
                      @@ Optional(has_state, "State", state)
                      @@ Optional(has_config, "Config", config)
                      @@ Optional(has_mounts, "Mounts", mounts)
            /\ built = NotBuilt
            /\ returned = NoReturn

\* The names and defaults the lookups are called with
LabelNames == {LABEL_SERVICE, LABEL_PROJECT, LABEL_ONEOFF, LABEL_MYSQL}
ConfigNames == {"Image", "Env", "User"}
Defaults == {NoValue, "", "False"}

\* container.get_label(name, default)
GetLabel ==
    /\ built.state = "built"
    /\ returned = NoReturn
    /\ \E name \in LabelNames, default \in Defaults :
          returned' = [call |-> "get_label", name |-> name,
                       default |-> default,
                       value |-> get_label(built.container, name, default)]
    /\ UNCHANGED <<orchestrator, data, built>>

\* container.get_config(name, default)
GetConfig ==
    /\ built.state = "built"
    /\ returned = NoReturn
    /\ \E name \in ConfigNames, default \in Defaults :
          returned' = [call |-> "get_config", name |-> name,
                       default |-> default,
                       value |-> get_config(built.container, name, default)]
    /\ UNCHANGED <<orchestrator, data, built>>

\* container.service_name
ServiceName ==
    /\ built.state = "built"
    /\ returned = NoReturn
    /\ returned' = [call |-> "service_name",
                    value |-> service_name(built.container)]
    /\ UNCHANGED <<orchestrator, data, built>>

\* container.project_name
ProjectName ==
    /\ built.state = "built"
    /\ returned = NoReturn
    /\ returned' = [call |-> "project_name",
                    value |-> project_name(built.container)]
    /\ UNCHANGED <<orchestrator, data, built>>

\* container.instance
GetInstance ==
    /\ built.state = "built"
    /\ returned = NoReturn
    /\ returned' = [call |-> "instance",
                    value |-> instance(built.container)]
    /\ UNCHANGED <<orchestrator, data, built>>

NextContainer ==
    \/ Construct
    \/ GetLabel
    \/ GetConfig
    \/ ServiceName
    \/ ProjectName
    \/ GetInstance

SpecContainer == InitContainer /\ [][NextContainer]_vars

----------------------------------------------------------------------------
(* The backup mounts of a discovered group *)

\* The mount lists of a peer
MountListChoices ==
    {<<>>,
     <<[Type |-> "bind", Source |-> "/a", Destination |-> "/x"]>>,
     <<[Type |-> "bind", Source |-> "/a", Destination |-> "/y"],
       [Type |-> "volume", Name |-> "ab", Source |-> "/ab",
        Destination |-> "/x/y"]>>,
     <<[Type |-> "volume", Name |-> "ab", Source |-> "/ab",
        Destination |-> "/x"],
       [Type |-> "bind", Source |-> "/A", Destination |-> "/y"]>>}

\* The peers of a compose deployment have its project label and a service
\* label; when the backup service is started without compose, neither it
\* nor the other containers started that way have them
ComposeLabels(compose, service) ==
    IF compose
    THEN (LABEL_PROJECT :> "a") @@ (LABEL_SERVICE :> service)
    ELSE EmptyDict

\* The label dicts of a peer
PeerLabelChoices(compose) ==
    {ComposeLabels(compose, service)
        @@ OptionalLabel(LABEL_VOLUMES, vols)
        @@ OptionalLabel(LABEL_MYSQL, mysql)
        @@ OptionalLabel(LABEL_INCLUDE, include) :
        service \in {"web", "db"}, vols \in {NoValue, "True"},
        mysql \in {NoValue, "True"}, include \in {NoValue, "b"}}

\* The sizes of a group
GroupSizes == {0, 1, 2}

\* The snapshot of the backup service's container and its peers
GroupSnapshot(compose, labels, mounts) ==
    <<[Id |-> SelfId, Labels |-> ComposeLabels(compose, "backup"),
       Config |-> EmptyDict, Mounts |-> <<>>]>>
    \o [k \in DOMAIN labels |->
           [Id |-> PeerId(k), Labels |-> labels[k],
            Config |-> EmptyDict, Mounts |-> mounts[k]]]

DestPrefixes == {"/volumes", "/backup"}

InitMounts ==
    \E compose \in BOOLEAN, n \in GroupSizes :
        \E labels \in [1..n -> PeerLabelChoices(compose)],
           mounts \in [1..n -> MountListChoices] :
            Setup(GroupSnapshot(compose, labels, mounts), SelfId,
                  [q \in Invocations |->
                      IF q = Discoverer THEN "backup" ELSE ""])

\* containers.generate_backup_mounts(dest_prefix)
GenerateBackupMounts(p) ==
    /\ pc[p] = "backup"
    /\ returned = NoReturn
    /\ \E dest_prefix \in DestPrefixes :
          returned' = [call |-> "generate_backup_mounts",
                       dest_prefix |-> dest_prefix,
                       value |-> generate_backup_mounts(containers[p],
                                                        dest_prefix)]
    /\ UNCHANGED <<orchestrator, data, built>>

NextMounts ==
    \E p \in Invocations :
        \/ Discover(p)
        \/ GenerateBackupMounts(p)

SpecMounts == InitMounts /\ [][NextMounts]_vars

----------------------------------------------------------------------------
(* Properties *)

Discovered(p) == pc[p] \notin {"idle", "main"}

MarkerFound(p) == containers[p].backup_process_container # None

Targets == {"backup_files", "backup_database"}

\* The backup-process containers of project "a" the runtime lists
BackupProcessesListed ==
    {i \in 1..Len(list_containers) :
        /\ is_backup_process_container(list_containers[i])
        /\ project_name(list_containers[i]) = "a"}

\* C1: a backup command whose discovery found a container with the
\* backup-process marker label never invokes init_repo or spawn, and its
\* guard ends it with AlreadyRunning.
C1_SingleFlightGuard ==
    \A p \in Invocations :
        (action[p] = "backup" /\ Discovered(p) /\ MarkerFound(p))
        => /\ calls[p]["init_repo"] = 0
           /\ calls[p]["spawn"] = 0
           /\ pc[p] # "backup"
                => /\ pc[p] = "raised"
                   /\ exception[p] = "AlreadyRunning"
                   /\ guard[p] = "refused"

C1_Witness ==
    \E p \in Invocations :
        /\ action[p] = "backup"
        /\ MarkerFound(p)
        /\ pc[p] = "raised"
        /\ exception[p] = "AlreadyRunning"

\* C2: a backup command whose discovery found no backup-process container
\* passes the guard and, once init_repo has returned, invokes spawn, whatever
\* the runtime lists by then; so two overlapping commands both spawn.
C2_GuardIsAdvisory ==
    \A p \in Invocations :
        (action[p] = "backup" /\ Discovered(p) /\ pc[p] # "backup"
            /\ ~containers[p].raised /\ ~MarkerFound(p))
        => /\ guard[p] = "passed"
           /\ exception[p] # "AlreadyRunning"
           /\ (pc[p] \notin {"init_repo", "spawn"}
                 /\ exception[p] # "DelegateError")
                => calls[p]["spawn"] = 1

\* two backup-process containers of the same project run at once, each
\* spawned by a command that passed the guard
C2_Witness ==
    /\ Cardinality(BackupProcessesListed) = 2
    /\ \A p \in Invocations : guard[p] = "passed" /\ pc[p] = "waiting"

\* The positions of a snapshot whose Id the hostname prefixes
Matches(all_containers, hostname) ==
    {i \in 1..Len(all_containers) : StartsWith(all_containers[i].Id, hostname)}

\* C3: discovery succeeds with the one record whose id HOSTNAME prefixes as
\* this_container, and fails with SelfNotFound when no record or more than
\* one record matches.
C3_SelfIdentification ==
    LET p == Discoverer
        m == Matches(runtime, HOSTNAME[p])
    IN Discovered(p)
       => IF Cardinality(m) = 1
          THEN /\ ~containers[p].raised
               /\ \A i \in m : containers[p].this_container.Id = runtime[i].Id
          ELSE /\ containers[p].raised
               /\ exception[p] = "SelfNotFound"
               /\ containers[p].containers = <<>>

\* C4: the backup process backs up or cleans up only when its discovery
\* found its own container to be the backup-process container.
C4_InnerCommandGuard ==
    \A p \in Procs :
        (action[p] = "start_backup_process"
            /\ \/ calls[p]["backup_files"] > 0
               \/ Len(db_calls[p]) > 0
               \/ calls[p]["forget"] > 0
               \/ calls[p]["prune"] > 0)
        => /\ MarkerFound(p)
           /\ containers[p].this_container.Id
                = containers[p].backup_process_container.Id

\* A backup process that passed its guard and is through with its targets
TargetsDone(p) ==
    /\ action[p] = "start_backup_process"
    /\ guard[p] = "passed"
    /\ pc[p] \notin {"backup_files", "databases"}

\* The ids of the peers with database backup enabled, in order
DatabasePeerIds(p) ==
    LET peers == SelectSeq(containers[p].containers, database_backup_enabled)
    IN [k \in 1..Len(peers) |-> peers[k].Id]

IsPrefix(s, t) == Len(s) <= Len(t) /\ SubSeq(t, 1, Len(s)) = s

\* C5: a backup process that passed its guard attempts the volume backup
\* once and backup() once on every peer with database backup enabled,
\* whatever failed before; when a target failed the run ends with exit(1).
C5_PartialFailureTolerance ==
    \A p \in Procs :
        /\ (action[p] = "start_backup_process" /\ guard[p] = "passed")
            => /\ calls[p]["backup_files"] <= 1
               /\ IsPrefix(db_calls[p], DatabasePeerIds(p))
        /\ TargetsDone(p)
            => /\ calls[p]["backup_files"] = 1
               /\ db_calls[p] = DatabasePeerIds(p)
               /\ failed[p] \cap Targets # {}
                    => /\ errors[p]
                       /\ pc[p] = "exit1"

\* the volume backup failed, and two database backups were still made
C5_Witness ==
    \E p \in Procs :
        /\ TargetsDone(p)
        /\ "backup_files" \in failed[p]
        /\ Len(db_calls[p]) = 2
        /\ pc[p] = "exit1"

\* C6: forget and prune are never invoked by a backup process one of whose
\* targets returned non-zero or raised.
C6_CleanupGating ==
    \A p \in Procs :
        (calls[p]["forget"] > 0 \/ calls[p]["prune"] > 0)
        => failed[p] \cap Targets = {}

\* a run whose target failed ended, without cleanup
C6_Witness ==
    \E p \in Procs :
        /\ TargetsDone(p)
        /\ pc[p] \in Terminal
        /\ failed[p] \cap Targets # {}
        /\ calls[p]["forget"] = 0
        /\ calls[p]["prune"] = 0

\* C7: a backup process that ran its targets and its cleanup exits with 1
\* when a target failed or forget or prune returned non-zero, and with 0
\* when all of them succeeded.
C7_ExitCode ==
    \A p \in Procs :
        (TargetsDone(p) /\ pc[p] \in Terminal /\ exception[p] = "")
        => ExitCode(p) = (IF failed[p] # {} THEN 1 ELSE 0)

\* C8: a backup command whose spawn raised, or whose backup-process
\* container returned non-zero, has sent an alert and exits non-zero.
C8_AlertedFailure ==
    \A p \in Invocations :
        (action[p] = "backup" /\ "spawn" \in failed[p] /\ pc[p] \in Terminal)
        => /\ calls[p]["alert"] = 1
           /\ ExitCode(p) # 0

\* C9: no delegate's error leaves a process unhandled, and a backup command
\* one of whose delegate calls (or of its backup process's) failed has
\* alerted the operator when it ends.
C9_DelegateFailuresHandled ==
    /\ \A p \in Procs : exception[p] # "DelegateError"
    /\ \A p \in Invocations :
          (action[p] = "backup" /\ pc[p] \in Terminal
              /\ failed[p] \cup failed[SpawnedOf(p)] # {})
          => calls[p]["alert"] >= 1

\* What C10 says a peer is
IsPeer(container, this) ==
    /\ project_name(container) = project_name(this)
    /\ get_label(container, LABEL_ONEOFF, NoValue) # "True"
    /\ container.Id # this.Id

\* C10: the containers discovery keeps are those of the snapshot, in its
\* order, that have this_container's project name, are not one-off and have
\* another id than this_container.
C10_PeerSelection ==
    LET p == Discoverer
        this == containers[p].this_container
    IN (Discovered(p) /\ ~containers[p].raised)
       => containers[p].containers
            = SelectSeq(runtime, LAMBDA c : IsPeer(c, this))

\* one peer kept, a one-off container and one of another project left out
C10_Witness ==
    LET p == Discoverer
        this == containers[p].this_container
    IN /\ Discovered(p)
       /\ ~containers[p].raised
       /\ Len(runtime) = MaxContainers
       /\ Len(containers[p].containers) = 1
       /\ \E i \in 1..Len(runtime) :
             /\ is_oneoff(runtime[i])
             /\ project_name(runtime[i]) = project_name(this)
             /\ runtime[i].Id # this.Id

----------------------------------------------------------------------------
(* Properties of a Container on its own *)

\* The call made on the container, and what it returned
Returned(call) == built.state = "built" /\ returned.call = call

\* The patterns a label's value lists: the pieces between the commas of the
\* value without the whitespace around it
PatternsOf(container, name) ==
    IF name \in DOMAIN container.Labels
    THEN split(strip(container.Labels[name]), ",")
    ELSE <<>>

\* A pattern list is present: the label has a value that is not blank
Present(container, name) ==
    /\ name \in DOMAIN container.Labels
    /\ strip(container.Labels[name]) # ""

\* The mounts, in order, whose source has some pattern as a substring
MountsWith(mounts, patterns) ==
    SelectSeq(mounts, LAMBDA m : \E k \in DOMAIN patterns :
                                    Contains(m.Source, patterns[k]))

\* The mounts, in order, whose source has no pattern as a substring
MountsWithout(mounts, patterns) ==
    SelectSeq(mounts, LAMBDA m : \A k \in DOMAIN patterns :
                                    ~Contains(m.Source, patterns[k]))

\* C11: when the include pattern list is present, filter_mounts returns the
\* mounts, in order, whose source has an include pattern as a substring,
\* whatever the exclude label is.
C11_IncludeFilter ==
    (Returned("filter_mounts") /\ Present(built.container, LABEL_INCLUDE))
    => returned.value
         = MountsWith(built.container.Mounts,
                      PatternsOf(built.container, LABEL_INCLUDE))

\* one of two mounts is kept, and an exclude pattern is in its source
C11_Witness ==
    /\ Returned("filter_mounts")
    /\ Present(built.container, LABEL_INCLUDE)
    /\ Present(built.container, LABEL_EXCLUDE)
    /\ Len(built.container.Mounts) = 2
    /\ Len(returned.value) = 1
    /\ MountsWith(returned.value,
                  PatternsOf(built.container, LABEL_EXCLUDE)) # <<>>

\* C12: when there is no include pattern list and the exclude pattern list
\* is present, filter_mounts returns the mounts, in order, whose source has
\* no exclude pattern as a substring.
C12_ExcludeFilter ==
    (Returned("filter_mounts") /\ ~Present(built.container, LABEL_INCLUDE)
        /\ Present(built.container, LABEL_EXCLUDE))
    => returned.value
         = MountsWithout(built.container.Mounts,
                         PatternsOf(built.container, LABEL_EXCLUDE))

\* one of two mounts is dropped by the exclude patterns alone
C12_Witness ==
    /\ Returned("filter_mounts")
    /\ ~Present(built.container, LABEL_INCLUDE)
    /\ Present(built.container, LABEL_EXCLUDE)
    /\ Len(built.container.Mounts) = 2
    /\ Len(returned.value) = 1

\* The label is absent, or its value lists no pattern that is not empty
NoPattern(container, name) ==
    \A k \in DOMAIN PatternsOf(container, name) :
        PatternsOf(container, name)[k] = ""

\* C13: when the include and the exclude label are each absent, blank or
\* made of separators only, filter_mounts returns all the mounts, in order.
C13_NoFilterFallback ==
    (Returned("filter_mounts")
        /\ NoPattern(built.container, LABEL_INCLUDE)
        /\ NoPattern(built.container, LABEL_EXCLUDE))
    => returned.value = built.container.Mounts

\* The record lacks a block a Container needs
LacksBlock(record) ==
    \/ "State" \notin DOMAIN record
    \/ "Config" \notin DOMAIN record
    \/ "Labels" \notin DOMAIN record.Config

\* C14: constructing a Container from a record without its State block, its
\* Config block or the Labels of its Config fails with ValueError and with
\* no other error, whatever else the record has or lacks.
C14_MalformedRecords ==
    (built.state # "new" /\ LacksBlock(data))
    => /\ built.state = "raised"
       /\ built.raised = "ValueError"

\* C15: get_label and get_config return the caller's default when the label
\* or the config key is absent, and service_name and project_name are the
\* empty string when the container has no such label.
C15_LookupDefaults ==
    /\ (Returned("get_label")
           /\ returned.name \notin DOMAIN built.container.Labels)
        => returned.value = returned.default
    /\ (Returned("get_config")
           /\ returned.name \notin DOMAIN built.container.Config)
        => returned.value = returned.default
    /\ (Returned("service_name")
           /\ LABEL_SERVICE \notin DOMAIN built.container.Labels)
        => returned.value = ""
    /\ (Returned("project_name")
           /\ LABEL_PROJECT \notin DOMAIN built.container.Labels)
        => returned.value = ""

\* The label is one of the values that enable a backup
Enabled(container, name) ==
    /\ name \in DOMAIN container.Labels
    /\ container.Labels[name] \in {"1", "true", "True"}

\* C16: instance is the MariaDB variant when the mariadb label is enabled,
\* else the MySQL variant when the mysql label is, else the PostgreSQL
\* variant when the postgres label is, else the container itself; it is
\* never None and has the container's id.
C16_SpecializationSelection ==
    Returned("instance")
    => /\ returned.value.class
            = (IF Enabled(built.container, LABEL_MARIADB)
               THEN "MariadbContainer"
               ELSE IF Enabled(built.container, LABEL_MYSQL)
               THEN "MysqlContainer"
               ELSE IF Enabled(built.container, LABEL_POSTGRES)
               THEN "PostgresContainer"
               ELSE "Container")
       /\ returned.value # NoInstance
       /\ returned.value.container.Id = built.container.Id

\* all three labels are enabled, and the MariaDB variant is returned
C16_Witness ==
    /\ Returned("instance")
    /\ Enabled(built.container, LABEL_MARIADB)
    /\ Enabled(built.container, LABEL_MYSQL)
    /\ Enabled(built.container, LABEL_POSTGRES)
    /\ returned.value.class = "MariadbContainer"
    /\ returned.value.container.Id = data.Id

----------------------------------------------------------------------------
(* Properties of the backup mounts *)

\* The mounts of a container that survive its filter
Surviving(container) ==
    IF Present(container, LABEL_INCLUDE)
    THEN MountsWith(container.Mounts, PatternsOf(container, LABEL_INCLUDE))
    ELSE IF Present(container, LABEL_EXCLUDE)
    THEN MountsWithout(container.Mounts, PatternsOf(container, LABEL_EXCLUDE))
    ELSE container.Mounts

\* The service name of a container: the empty string without the label
ServiceOf(container) ==
    IF LABEL_SERVICE \in DOMAIN container.Labels
    THEN container.Labels[LABEL_SERVICE] ELSE ""

\* The mounts that contribute: <<i, j>> is the j-th surviving mount of the
\* i-th peer, for the peers with volume backup enabled
Contributing(peers) ==
    {e \in (1..Len(peers)) \X (1..Cardinality(MountChoices) + 1) :
        /\ Enabled(peers[e[1]], LABEL_VOLUMES)
        /\ e[2] <= Len(Surviving(peers[e[1]]))}

SourceAt(peers, e) == Surviving(peers[e[1]])[e[2]].Source

Later(e, f) == e[1] > f[1] \/ (e[1] = f[1] /\ e[2] >= f[2])

\* The union of the peers' mappings, the later entry winning
UnionOfMappings(peers, prefix) ==
    LET entries == Contributing(peers)
        last(key) ==
            CHOOSE e \in entries :
                /\ SourceAt(peers, e) = key
                /\ \A f \in entries :
                      SourceAt(peers, f) = key => Later(e, f)
    IN [key \in {SourceAt(peers, e) : e \in entries} |->
          [bind |-> prefix \o "/" \o ServiceOf(peers[last(key)[1]]) \o "/"
                    \o SubSeq(Surviving(peers[last(key)[1]])
                                  [last(key)[2]].Destination,
                              2, Len(Surviving(peers[last(key)[1]])
                                        [last(key)[2]].Destination)),
           mode |-> "ro"]]

\* C17: generate_backup_mounts(dest_prefix) returns the union, in peer order
\* and the later entry winning, of the mappings of the peers with volume
\* backup enabled, from the source of every mount that survives the peer's
\* filter to dest_prefix/service_name/destination, read-only.
C17_BackupMountGeneration ==
    \A p \in Invocations :
        (pc[p] = "backup" /\ returned.call = "generate_backup_mounts")
        => /\ returned.value.raised = ""
           /\ returned.value.value
                = UnionOfMappings(containers[p].containers,
                                  returned.dest_prefix)

----------------------------------------------------------------------------
(* Properties of the spawn request *)

\* A container's own volumes: every mount's source to its destination,
\* read-write
OwnVolumes(container) ==
    [key \in {container.Mounts[j].Source : j \in DOMAIN container.Mounts} |->
        [bind |-> (CHOOSE m \in {container.Mounts[j] :
                                    j \in DOMAIN container.Mounts} :
                        m.Source = key).Destination,
         mode |-> "rw"]]

\* v is a union of the dicts f and g: it has the keys of both, and every
\* key's entry is f's or g's
IsUnion(v, f, g) ==
    /\ DOMAIN v = DOMAIN f \cup DOMAIN g
    /\ \A key \in DOMAIN v :
          \/ key \in DOMAIN f /\ v[key] = f[key]
          \/ key \in DOMAIN g /\ v[key] = g[key]

\* The arguments are those of the spawn request of p's backup command
IsSpawnRequest(p, args) ==
    LET this == containers[p].this_container
    IN /\ IsUnion(args.volumes, OwnVolumes(this),
                  UnionOfMappings(containers[p].containers, "/volumes"))
       /\ args.image = this.Config["Image"]
       /\ args.environment = this.Config["Env"]
       /\ LABEL_BACKUP_PROCESS \in DOMAIN args.labels
       /\ args.labels[LABEL_BACKUP_PROCESS] = "True"
       /\ LABEL_PROJECT \in DOMAIN args.labels
       /\ args.labels[LABEL_PROJECT] = this.Labels[LABEL_PROJECT]

\* C18: a backup command that passed its guard invokes spawn exactly once,
\* with the union of its own volumes and the peers' backup mounts under
\* /volumes, its own image and environment, and labels with the
\* backup-process marker "True" and its own project name.
C18_SpawnRequest ==
    \A p \in Invocations :
        (action[p] = "backup" /\ guard[p] = "passed")
        => /\ calls[p]["spawn"] <= 1
           /\ pc[p] \notin {"init_repo", "spawn"} => calls[p]["spawn"] = 1
           /\ calls[p]["spawn"] = 1
                => /\ spawn_args[p].called
                   /\ IsSpawnRequest(p, spawn_args[p])

----------------------------------------------------------------------------
(* Properties of the backup-process container and of the success path *)

\* The positions of the snapshot's records with the backup-process marker
MarkerPositions ==
    {i \in 1..Len(runtime) : is_backup_process_container(runtime[i])}

\* C19: when the snapshot has more than one container with the
\* backup-process marker label, discovery takes the first of them, in the
\* snapshot's order, as backup_process_container; when it has none,
\* backup_process_container is None.
C19_BackupProcessSelection ==
    LET p == Discoverer
    IN (Discovered(p) /\ ~containers[p].raised)
       => /\ Cardinality(MarkerPositions) > 1
               => \E i \in MarkerPositions :
                     /\ \A j \in MarkerPositions : i <= j
                     /\ containers[p].backup_process_container = runtime[i]
          /\ MarkerPositions = {}
               => containers[p].backup_process_container = None

\* C20: a backup process that passed its guard and whose volume backup and
\* database backups all succeeded goes on to forget and then to prune, once
\* each, and ends in "done"; it neither ends nor faults before the cleanup,
\* whatever the peers are.  (No delegate call of the run failed.)
C20_SuccessPathReachesCleanup ==
    \A p \in Procs :
        (TargetsDone(p) /\ failed[p] = {})
        => /\ exception[p] = ""
           /\ calls[p]["forget"] <= 1
           /\ calls[p]["prune"] <= 1
           /\ calls[p]["prune"] = 1 => calls[p]["forget"] = 1
           /\ pc[p] \in Terminal
                => /\ calls[p]["forget"] = 1
                   /\ calls[p]["prune"] = 1
                   /\ pc[p] = "done"

\* C21: in the volumes passed to spawn, the source of every mount of a peer
\* with volume backup enabled that survives the peer's filter is mapped
\* read-only to a path under /volumes/, also when the backup service's
\* container mounts that source itself.
C21_PeerVolumesReadOnly ==
    \A p \in Invocations :
        spawn_args[p].called
        => \A i \in DOMAIN containers[p].containers :
              Enabled(containers[p].containers[i], LABEL_VOLUMES)
              => \A j \in DOMAIN Surviving(containers[p].containers[i]) :
                    LET key == Surviving(containers[p].containers[i])[j].Source
                    IN /\ key \in DOMAIN spawn_args[p].volumes
                       /\ spawn_args[p].volumes[key].mode = "ro"
                       /\ StartsWith(spawn_args[p].volumes[key].bind,
                                     "/volumes/")

\* The sources the container mounts
SourcesOf(container) ==
    {container.Mounts[j].Source : j \in DOMAIN container.Mounts}

\* spawn was passed a source that the backup service's container and a peer
\* both mount, with the peer's read-only entry; its other own volume is
\* passed read-write
C21_Witness ==
    \E p \in Invocations :
        /\ spawn_args[p].called
        /\ \E i \in DOMAIN containers[p].containers :
              \E key \in SourcesOf(containers[p].this_container) :
                 /\ Enabled(containers[p].containers[i], LABEL_VOLUMES)
                 /\ \E j \in DOMAIN Surviving(containers[p].containers[i]) :
                       Surviving(containers[p].containers[i])[j].Source = key
                 /\ spawn_args[p].volumes[key].mode = "ro"
        /\ \E key \in SourcesOf(containers[p].this_container) :
              spawn_args[p].volumes[key].mode = "rw"

\* The container carries the backup-process marker and is of another project
\* or a one-off container
OutOfGroup(container) ==
    /\ is_backup_process_container(container)
    /\ \/ project_name(container) # project_name(SelfContainer)
       \/ is_oneoff(container)

\* C22: when the runtime lists a container with the backup-process marker
\* that is of another project or a one-off container, a backup command's
\* discovery reports a backup process running although that container is not
\* among the containers of the project, and the command ends with
\* AlreadyRunning before init_repo or spawn.
C22_GuardScope ==
    \A p \in Invocations :
        (/\ action[p] = "backup"
         /\ Discovered(p)
         /\ ~containers[p].raised
         /\ \E i \in DOMAIN runtime : OutOfGroup(runtime[i]))
        => /\ backup_process_running(containers[p])
           /\ \A i \in DOMAIN containers[p].containers :
                 ~OutOfGroup(containers[p].containers[i])
           /\ calls[p]["init_repo"] = 0
           /\ calls[p]["spawn"] = 0
           /\ pc[p] # "backup"
                => /\ pc[p] = "raised"
                   /\ exception[p] = "AlreadyRunning"
                   /\ guard[p] = "refused"

\* a backup command was refused over a one-off container of its own project
\* while no container of the project carries the marker
C22_Witness ==
    \E p \in Invocations :
        /\ action[p] = "backup"
        /\ exception[p] = "AlreadyRunning"
        /\ pc[p] = "raised"
        /\ containers[p].backup_process_container = OneoffBackupProcess
        /\ is_oneoff(containers[p].backup_process_container)
        /\ \A i \in DOMAIN containers[p].containers :
              ~is_backup_process_container(containers[p].containers[i])

====
